---- MODULE Spec2Model ----
(***************************************************************************)
(* Model of the order execution manager of BullionBear/seq                 *)
(* (package ems: ExecutionManager, Order, Status) as a state machine.      *)
(*                                                                         *)
(* Spec      the manager driven by one caller: every public method is one  *)
(*           atomic action.                                                *)
(* ConcSpec  MakeLimitOrder / MakeMarketOrder called by several goroutines *)
(*           at once; the methods take no lock, so every access to the     *)
(*           shared counter and to the map is a step of its own.           *)
(* SubSpec      the subscriptions and their unsubscribe functions.         *)
(* FactorySpec  an EventFactory (pkg/evbus) used by several workers.       *)
(* SmsSpec      the SecretManager (internal/srv/sms) driven by one caller. *)
(* LoggerSpec   the logger package (pkg/logger) driven by one caller.      *)
(* InitGetSpec  the logger's Init and Get called by several goroutines.    *)
(* FileOnceSpec GetLogger(LoggerTypeFile) called by several goroutines.    *)
(*                                                                         *)
(* Prices and quantities are integers (the decimal values of the source at *)
(* whole units).  The CreatedAt / UpdatedAt stamps of an order are left    *)
(* out of the Order record: no property below reads them.                  *)
(***************************************************************************)
EXTENDS Integers, Sequences, FiniteSets, TLC

VARIABLES clientOrderID, activeOrders, client, returned, last, venueSubmits,
          pc, frame, crashed, raced, completed,
          unsubs,
          payload, nextEventID, eventPool, events, now, wpc, held, recycled,
          issued, written,
          secrets, dbRows, smsLast,
          globalLevel, globalLogger, globalLoggerInitialized, globalLoggerMutex,
          fileLogger, fileLoggerInitialized, fileLoggerInit, logFile,
          envLogFile, logLast, lastInit, fileBuiltByInit, setPath,
          lpc, lframe, initRuns

mgrVars  == <<clientOrderID, activeOrders, client>>
seqVars  == <<last, venueSubmits>>
concVars == <<pc, frame, crashed, raced, completed>>
subVars  == <<unsubs>>
facVars  == <<payload, nextEventID, eventPool, events, now, wpc, held,
              recycled, issued, written>>
smsVars  == <<secrets, dbRows, smsLast>>
logVars  == <<globalLevel, globalLogger, globalLoggerInitialized,
              globalLoggerMutex, fileLogger, fileLoggerInitialized,
              fileLoggerInit, logFile, envLogFile, logLast, lastInit,
              fileBuiltByInit, setPath, lpc, lframe, initRuns>>
vars     == <<clientOrderID, activeOrders, client, returned, last, venueSubmits,
              pc, frame, crashed, raced, completed,
              unsubs,
              payload, nextEventID, eventPool, events, now, wpc, held, recycled,
              issued, written,
              secrets, dbRows, smsLast,
              globalLevel, globalLogger, globalLoggerInitialized,
              globalLoggerMutex, fileLogger, fileLoggerInitialized,
              fileLoggerInit, logFile, envLogFile, logLast, lastInit,
              fileBuiltByInit, setPath, lpc, lframe, initRuns>>

(***************************************************************************)
(* Bounds of the model.                                                    *)
(***************************************************************************)
MaxOrders == 3
NumGoroutines == 2
CallsPerGoroutine == 2
MaxSubs == 2
MaxUnsubCalls == 2
NumWorkers == 2
MaxEvents == 3
MaxClock == 1
NumAccts == 3

(***************************************************************************)
(* internal/srv/ems/type.go: the iota constants.                           *)
(***************************************************************************)
SideBuy == 0
SideSell == 1

TypeMarket == 0
TypeLimit == 1

StatusUninitialized == 0
StatusInitialized == 1
StatusAccepted == 2
StatusPartiallyFilled == 3
StatusFilled == 4
StatusCanceled == 5
StatusRejected == 6

DecimalZero == 0

(***************************************************************************)
(* Inputs the callers draw their arguments from.                           *)
(***************************************************************************)
StrategyIDs == {1}
AcctIDs     == {7}
SymbolIDs   == {42}
Sides       == {SideBuy, SideSell}
Prices      == {0, 100}
Quantities  == {-1, 10}
SubmitIDs   == 0 .. (MaxOrders + 1)
Goroutines  == 1 .. NumGoroutines

(***************************************************************************)
(* Order values.                                                           *)
(***************************************************************************)
\* A limit order whose Status field is left at its zero value.
NewLimitOrder_NoStatus(id, strategyID, acctID, symbolID, side, price, quantity) ==
    [ StrategyID    |-> strategyID,
      ClientOrderID |-> id,
      AcctID        |-> acctID,
      SymbolID      |-> symbolID,
      Side          |-> side,
      Status        |-> StatusUninitialized,
      Type          |-> TypeLimit,
      Price         |-> price,
      Quantity      |-> quantity,
      ExecutedQty   |-> DecimalZero ]

\* MakeLimitOrder, the composite literal: the fields it does not name
\* (ExecutedQty) keep their zero value.
NewLimitOrder(id, strategyID, acctID, symbolID, side, price, quantity) ==
    [ StrategyID    |-> strategyID,
      ClientOrderID |-> id,
      AcctID        |-> acctID,
      SymbolID      |-> symbolID,
      Side          |-> side,
      Status        |-> StatusInitialized,
      Type          |-> TypeLimit,
      Price         |-> price,
      Quantity      |-> quantity,
      ExecutedQty   |-> DecimalZero ]

\* A market-order literal that does not name ClientOrderID: the field keeps
\* its zero value.
NewMarketOrder_ZeroID(id, strategyID, acctID, symbolID, side, quantity) ==
    [ StrategyID    |-> strategyID,
      ClientOrderID |-> 0,
      AcctID        |-> acctID,
      SymbolID      |-> symbolID,
      Side          |-> side,
      Status        |-> StatusInitialized,
      Type          |-> TypeMarket,
      Price         |-> DecimalZero,
      Quantity      |-> quantity,
      ExecutedQty   |-> DecimalZero ]

\* MakeMarketOrder, the composite literal: Price and ExecutedQty keep their
\* zero value.
NewMarketOrder(id, strategyID, acctID, symbolID, side, quantity) ==
    [ StrategyID    |-> strategyID,
      ClientOrderID |-> id,
      AcctID        |-> acctID,
      SymbolID      |-> symbolID,
      Side          |-> side,
      Status        |-> StatusInitialized,
      Type          |-> TypeMarket,
      Price         |-> DecimalZero,
      Quantity      |-> quantity,
      ExecutedQty   |-> DecimalZero ]

\* A manager whose increment is lost: the counter keeps its value.
NextClientOrderID_NoIncrement(c) == c

\* e.clientOrderID++
NextClientOrderID(c) == c + 1

\* An assignment that stores into a fresh map: the earlier entries are gone.
MapAssign_FreshMap(m, k, v) == [x \in {k} |-> v]

\* e.activeOrders[k] = v
MapAssign(m, k, v) == [x \in (DOMAIN m) \cup {k} |-> IF x = k THEN v ELSE m[x]]

EmptyMap == [x \in {} |-> 0]

\* rows.Scan(dest...): database/sql fails the Scan unless the row has as
\* many columns as there are destinations.
ScanFits(columns, dests) == Cardinality(columns) = Cardinality(dests)

\* The instruments table, as the repository creates it.
InstrumentsColumns ==
    {"symbol_id", "exchange", "type", "symbol", "base_ccy", "base_ccy_id",
     "quote_ccy", "quote_ccy_id", "price_tick_size", "qty_tick_size", "active"}

\* The destinations of the Scan in loadInstruments.
InstrumentScanDests == {"SymbolID", "Symbol", "Exchange", "Type", "Active"}

\* The contents the instruments table can have: its active symbol_ids.
InstrumentTables == SUBSET SymbolIDs

\* loadInstruments on a table whose active rows are `rows`: `SELECT *`
\* fails or a row fails its Scan (an error, nothing usable), or every row
\* is stored under its SymbolID.
LoadInstruments(rows, dbUp) ==
    IF ~dbUp THEN [err |-> "db error", instruments |-> {}]
    ELSE IF rows # {} /\ ~ScanFits(InstrumentsColumns, InstrumentScanDests)
         THEN [err |-> "scan error", instruments |-> {}]
         ELSE [err |-> "nil", instruments |-> rows]

\* NewInstrumentCatalog: the catalogs it returns (it returns nil and the
\* error of loadInstruments otherwise).
Catalogs ==
    {LoadInstruments(rows, TRUE).instruments :
        rows \in {t \in InstrumentTables : LoadInstruments(t, TRUE).err = "nil"}}

\* InstrumentCatalog.instruments: the symbolIDs a catalog of the
\* repository can hold, and GetInstrument's lookup in it.
Instruments == UNION Catalogs
GetInstrumentFound(symbolID) == symbolID \in Instruments

TerminalStatuses == {StatusFilled, StatusCanceled, StatusRejected}

\* The result of SubmitOrder and of CancelOrder: the bodies are `return nil`.
SubmitOrderResult(id) == "nil"
CancelOrderResult(id) == "nil"

NoArgs == [strategyID |-> 0, acctID |-> 0, symbolID |-> 0, side |-> 0,
           price |-> 0, quantity |-> 0]

NoCall == [op |-> "none", args |-> NoArgs, id |-> 0, err |-> "nil"]

NoFrame == [kind |-> TypeMarket, tmp |-> 0, reg |-> 0, key |-> 0,
            order |-> NewMarketOrder(0, 0, 0, 0, 0, 0), n |-> 0]

(***************************************************************************)
(* pkg/evbus/event.go: Event[T] and the payload types of                   *)
(* internal/srv/ems/type.go.  Times are integers; TimeZero is time.Time{}. *)
(***************************************************************************)
Workers   == 1 .. NumWorkers
Envelopes == 1 .. MaxEvents
Nil       == 0
TimeZero  == 0
PayloadTypes == {"OrderUpdate", "OrderFill"}

\* The zero value of T.
ZeroData(T) ==
    IF T = "OrderUpdate"
    THEN [ ClientOrderID     |-> 0,
           BeforeStatus      |-> StatusUninitialized,
           AfterStatus       |-> StatusUninitialized,
           BeforeExecutedQty |-> DecimalZero,
           AfterExecutedQty  |-> DecimalZero,
           UpdatedAt         |-> TimeZero ]
    ELSE [ ClientOrderID |-> 0,
           FillID        |-> 0,
           FilledQty     |-> DecimalZero,
           FilledPrice   |-> DecimalZero,
           FeeCcyID      |-> 0,
           FeeQty        |-> DecimalZero,
           FilledAt      |-> TimeZero ]

\* A payload as a holder fills it in at time t: no field keeps its zero value.
FilledData(T, t) ==
    IF T = "OrderUpdate"
    THEN [ ClientOrderID     |-> 1,
           BeforeStatus      |-> StatusAccepted,
           AfterStatus       |-> StatusPartiallyFilled,
           BeforeExecutedQty |-> 4,
           AfterExecutedQty  |-> 10,
           UpdatedAt         |-> t ]
    ELSE [ ClientOrderID |-> 1,
           FillID        |-> 5,
           FilledQty     |-> 4,
           FilledPrice   |-> 101,
           FeeCcyID      |-> 3,
           FeeQty        |-> 2,
           FilledAt      |-> t ]

\* OrderUpdate.Reset
OrderUpdateReset(d) ==
    [d EXCEPT !.BeforeStatus      = StatusUninitialized,
              !.AfterStatus       = StatusUninitialized,
              !.BeforeExecutedQty = DecimalZero,
              !.AfterExecutedQty  = DecimalZero,
              !.UpdatedAt         = TimeZero]

\* An OrderFill.Reset that forgets the fee currency.
OrderFillReset_KeepsFeeCcy(d) ==
    [d EXCEPT !.ClientOrderID = 0,
              !.FillID        = 0,
              !.FilledQty     = DecimalZero,
              !.FilledPrice   = DecimalZero,
              !.FeeQty        = DecimalZero,
              !.FilledAt      = TimeZero]

\* OrderFill.Reset
OrderFillReset(d) ==
    [d EXCEPT !.ClientOrderID = 0,
              !.FillID        = 0,
              !.FilledQty     = DecimalZero,
              !.FilledPrice   = DecimalZero,
              !.FeeQty        = DecimalZero,
              !.FeeCcyID      = 0,
              !.FilledAt      = TimeZero]

\* The resetFn NewExecutionManager gives the factory of payload type T.
ResetFn(T, d) == IF T = "OrderUpdate" THEN OrderUpdateReset(d)
                                      ELSE OrderFillReset(d)

\* eventPool.New: new(Event[T]).
NewEvent(T) == [Data |-> ZeroData(T), EventID |-> 0,
                CreatedAt |-> TimeZero, UpdatedAt |-> TimeZero]

(***************************************************************************)
(* NewExecutionManager: counter 0, an empty order map, no client map       *)
(* (the literal leaves the field nil: no account has a client).            *)
(***************************************************************************)
InitManager ==
    /\ clientOrderID = 0
    /\ activeOrders = EmptyMap
    /\ client = EmptyMap
    /\ returned = << >>
    /\ last = NoCall
    /\ venueSubmits = << >>
    /\ pc = [g \in Goroutines |-> "idle"]
    /\ frame = [g \in Goroutines |-> NoFrame]
    /\ crashed = FALSE
    /\ raced = {}
    /\ completed = << >>
    /\ unsubs = << >>

\* NewEventFactory: the counter at its zero value, an empty pool.  The
\* factory observed is the one whose payload type is `payload`.
InitFactory ==
    /\ nextEventID = 0
    /\ eventPool = {}
    /\ events = [e \in Envelopes |-> NewEvent(payload)]
    /\ now = 1
    /\ wpc = [w \in Workers |-> "idle"]
    /\ held = [w \in Workers |-> Nil]
    /\ recycled = [w \in Workers |-> FALSE]
    /\ issued = << >>
    /\ written = {}

(***************************************************************************)
(* internal/srv/sms: SecretManager.  A Secret is the record AddSecret      *)
(* writes (AcctID and the credentials, here APIKey); `secrets` is the      *)
(* in-memory cache, keyed by AcctID, and dbRows the rows of the secrets    *)
(* table, whose primary key is acct_id.                                    *)
(***************************************************************************)
SmsAcctIDs == 1 .. NumAccts

APIKeys == {"k1", "k2"}

Secrets == [AcctID : SmsAcctIDs, APIKey : APIKeys]

NoSecret == [AcctID |-> 0, APIKey |-> ""]

\* The secrets table, as the repository creates it: its columns, and the
\* columns that are NOT NULL without a default (the primary key apart).
SecretsColumns ==
    {"acct_id", "username", "acct_name", "exchange", "api_key", "api_secret",
     "passphrase", "master_is"}

SecretsRequiredColumns ==
    {"username", "acct_name", "exchange", "api_key", "api_secret",
     "passphrase", "master_is"}

\* The destinations of the Scan in loadSecrets.
SecretScanDests == {"AcctID", "AcctName", "Exchange", "APIKey", "APISecret"}

\* The columns InsertSecret gives a value.
InsertSecretColumns ==
    {"acct_id", "acct_name", "exchange", "api_key", "api_secret"}

\* The tables a database can hold: one row per acct_id.
SecretTables ==
    UNION {[S -> APIKeys] : S \in SUBSET SmsAcctIDs}

\* loadSecrets: `SELECT *` fails or a row fails its Scan (an error; the rows
\* before it are not modelled as kept, the manager is given up), or every
\* row of the table goes into the cache under its AcctID.
LoadSecrets(rows, dbUp) ==
    IF ~dbUp THEN [err |-> "db error", cache |-> EmptyMap]
    ELSE IF DOMAIN rows # {} /\ ~ScanFits(SecretsColumns, SecretScanDests)
         THEN [err |-> "scan error", cache |-> EmptyMap]
         ELSE [err |-> "nil",
               cache |-> [a \in DOMAIN rows |->
                            [AcctID |-> a, APIKey |-> rows[a]]]]

\* s.db.Exec(InsertSecret, ...): the row is inserted, or the statement fails
\* (the database cannot be reached, a NOT NULL column of the table is given
\* no value, or, checked after that, the primary key is already there) and
\* the table is as before.
DbExecInsert(rows, secret, dbUp) ==
    IF ~dbUp THEN [err |-> "db error", rows |-> rows]
    ELSE IF ~(SecretsRequiredColumns \subseteq InsertSecretColumns)
         THEN [err |-> "not-null violation", rows |-> rows]
    ELSE IF secret.AcctID \in DOMAIN rows
         THEN [err |-> "duplicate key", rows |-> rows]
    ELSE [err |-> "nil", rows |-> MapAssign(rows, secret.AcctID, secret.APIKey)]

\* GetSecret: the cached secret, or the zero Secret and an error.
GetSecretResult(cache, acctID) ==
    IF acctID \in DOMAIN cache
    THEN [err |-> "nil", value |-> cache[acctID]]
    ELSE [err |-> "secret not found", value |-> NoSecret]

\* NewSecretManager(db): the cache is loaded from the table; when
\* loadSecrets fails the constructor returns nil and the error.
NewSecretManager(rows, dbUp) ==
    /\ dbRows = rows
    /\ secrets = LoadSecrets(rows, dbUp).cache
    /\ smsLast = [op |-> "NewSecretManager", acctID |-> 0,
                  err |-> LoadSecrets(rows, dbUp).err, value |-> NoSecret]

\* The constructor returned a manager.
HasSecretManager == ~(smsLast.op = "NewSecretManager" /\ smsLast.err # "nil")

(***************************************************************************)
(* pkg/logger: the package-level loggers.  A zerolog.Logger value is the   *)
(* record of what it writes to (out: "stdout", a file path, or "nil" for   *)
(* the zero value), whether the writer rotates the file, and its level     *)
(* (zerolog.New gives a logger the level trace, Level() sets it; the zero  *)
(* value of the struct has the level debug).                               *)
(* A path is openable when its directory can be made and the file opened.  *)
(* The Level and Output of the Options, which the code lower-cases, are    *)
(* sequences of characters; paths and the other strings are plain strings. *)
(***************************************************************************)
DefaultLogFile == "logs/seq.log"

LogPaths == {"", "a.log", "nodir/x.log", "isdir"}

EnvValues == {"", "b.log"}

LevelInputs == {<<"e", "R", "R", "O", "R">>, << >>}

OutputInputs == {<<"s", "t", "d", "o", "u", "t">>, <<"F", "i", "L", "e">>}

InitPaths == {"", "a.log", "nodir/x.log", "isdir"}

Options == [Level : LevelInputs, Output : OutputInputs, Path : InitPaths,
            MaxByteSize : {0, 1}]

NoOptions == [Level |-> << >>, Output |-> << >>, Path |-> "", MaxByteSize |-> 0]

\* os.MkdirAll(filepath.Dir(path), 0755) succeeds.
MkdirAllOk(path) == path # "nodir/x.log"

\* os.OpenFile(path, O_APPEND|O_CREATE|O_WRONLY, 0644) succeeds.
OpenFileOk(path) == path \in {"a.log", "b.log", DefaultLogFile}

Openable(path) == MkdirAllOk(path) /\ OpenFileOk(path)

NewLogger(out, rotate, level) == [out |-> out, rotate |-> rotate, level |-> level]

\* consoleLogger, as init() builds it: zerolog.New(consoleWriter), no Level().
ConsoleLogger == NewLogger("stdout", FALSE, "trace")

\* The zero value of zerolog.Logger: `var fileLogger zerolog.Logger` (no
\* writer, level 0, which is debug).
ZeroLogger == NewLogger("nil", FALSE, "debug")

\* No logger: a call that returns none, an Init that has not succeeded.
NoLogger == NewLogger("none", FALSE, "none")

\* The upper-case letters and their lower-case forms.
UpperToLower ==
    [A |-> "a", B |-> "b", C |-> "c", D |-> "d", E |-> "e", F |-> "f",
     G |-> "g", H |-> "h", I |-> "i", J |-> "j", K |-> "k", L |-> "l",
     M |-> "m", N |-> "n", O |-> "o", P |-> "p", Q |-> "q", R |-> "r",
     S |-> "s", T |-> "t", U |-> "u", V |-> "v", W |-> "w", X |-> "x",
     Y |-> "y", Z |-> "z"]

\* strings.ToLower: every upper-case letter of the string is replaced by its
\* lower-case form, every other character is kept.
ToLower(str) ==
    [i \in 1 .. Len(str) |->
        IF str[i] \in DOMAIN UpperToLower THEN UpperToLower[str[i]] ELSE str[i]]

\* parseLogLevel: switch strings.ToLower(level)
ParseLogLevel(level) ==
    LET l == ToLower(level)
    IN  CASE l = <<"t", "r", "a", "c", "e">> -> "trace"
          [] l = <<"d", "e", "b", "u", "g">> -> "debug"
          [] l = <<"i", "n", "f", "o">> -> "info"
          [] l \in {<<"w", "a", "r", "n">>, <<"w", "a", "r", "n", "i", "n", "g">>} -> "warn"
          [] l = <<"e", "r", "r", "o", "r">> -> "error"
          [] l = <<"f", "a", "t", "a", "l">> -> "fatal"
          [] l = <<"p", "a", "n", "i", "c">> -> "panic"
          [] OTHER -> "debug"

\* Init: output := strings.ToLower(opts.Output); "file" is the file branch,
\* "", "stdout", "console" and every unknown output are stdout.
OutputKind(output) ==
    IF ToLower(output) = <<"f", "i", "l", "e">> THEN "file" ELSE "stdout"

\* Init, file branch: opts.Path, else the environment variable, else the
\* default path.
InitPath(opts, env) ==
    IF opts.Path # "" THEN opts.Path
    ELSE IF env # "" THEN env ELSE DefaultLogFile

\* createFileWriter: the directory is made; without rotation the file is
\* opened, with rotation a lumberjack writer is returned unopened.
CreateFileWriter(path, maxByteSize) ==
    IF ~MkdirAllOk(path)
    THEN [err |-> "mkdir error", out |-> "nil", rotate |-> FALSE]
    ELSE IF maxByteSize <= 0
         THEN IF OpenFileOk(path)
              THEN [err |-> "nil", out |-> path, rotate |-> FALSE]
              ELSE [err |-> "open error", out |-> "nil", rotate |-> FALSE]
         ELSE [err |-> "nil", out |-> path, rotate |-> TRUE]

\* The logger Init builds: zerolog.New(writer)...Level(level).
InitBuilt(opts, env) ==
    IF OutputKind(opts.Output) = "file"
    THEN LET fw == CreateFileWriter(InitPath(opts, env), opts.MaxByteSize)
         IN  NewLogger(fw.out, fw.rotate, ParseLogLevel(opts.Level))
    ELSE NewLogger("stdout", FALSE, ParseLogLevel(opts.Level))

\* Init's error: only the file branch can fail.
InitErr(opts, env) ==
    IF OutputKind(opts.Output) = "file"
    THEN CreateFileWriter(InitPath(opts, env), opts.MaxByteSize).err
    ELSE "nil"

\* initFileLogger: a plain logger on logFile, or the console logger when the
\* directory cannot be made or the file cannot be opened.
InitFileLoggerResult(lf) ==
    IF MkdirAllOk(lf) /\ OpenFileOk(lf)
    THEN NewLogger(lf, FALSE, "trace")
    ELSE ConsoleLogger

\* A SetLogFile that records the path and never rebuilds the file logger.
SetLogFileOutcome_NoReinit(path, initialized, fl) ==
    [err |-> "nil", fileLogger |-> fl]

\* SetLogFile after logFile = path: an initialized file logger is rebuilt on
\* the new path, or left as it is when the path cannot be opened.
SetLogFileOutcome(path, initialized, fl) ==
    IF initialized
    THEN IF ~MkdirAllOk(path) THEN [err |-> "mkdir error", fileLogger |-> fl]
         ELSE IF ~OpenFileOk(path) THEN [err |-> "open error", fileLogger |-> fl]
         ELSE [err |-> "nil", fileLogger |-> NewLogger(path, FALSE, "trace")]
    ELSE [err |-> "nil", fileLogger |-> fl]

\* A GetLogFile that returns the recorded path as it is.
GetLogFileResult_Raw(lf) == lf

\* GetLogFile
GetLogFileResult(lf) == IF lf = "" THEN DefaultLogFile ELSE lf

\* Get
GetResult(initialized, gl) == IF initialized THEN gl ELSE ConsoleLogger

\* A Once whose later callers do not wait for the run in progress.
OnceEnter_NoWait(o) ==
    CASE o = "new" -> "run"
      [] OTHER -> "skip"

\* fileLoggerInit.Do(f) seen by a caller: it runs f, waits for the run in
\* progress, or finds it done.
OnceEnter(o) ==
    CASE o = "new" -> "run"
      [] o = "running" -> "wait"
      [] OTHER -> "skip"

\* globalLoggerMutex.Lock() goes through when no one holds the mutex.
CanLock(mu) == mu = Nil

\* A read lock that does not wait for the writer.
CanRLock_NoWait(mu) == TRUE

\* globalLoggerMutex.RLock() goes through when no writer holds the mutex.
CanRLock(mu) == mu = Nil

NoLogCall == [op |-> "none", path |-> "", err |-> "nil", logger |-> NoLogger,
              file |-> "n/a", prevOp |-> "none", ranInit |-> FALSE]

NoLogFrame == [opts |-> NoOptions, built |-> NoLogger]

\* The package with nothing initialized: the console logger is built, the
\* global level is debug, no Init and no GetLogger(LoggerTypeFile) call was
\* made; lf is the recorded log file path and sp the SetLogFile that set it.
PackageState(env, lf, sp) ==
    /\ envLogFile = env
    /\ globalLevel = "debug"
    /\ globalLogger = ConsoleLogger
    /\ globalLoggerInitialized = FALSE
    /\ globalLoggerMutex = Nil
    /\ fileLogger = ZeroLogger
    /\ fileLoggerInitialized = FALSE
    /\ fileLoggerInit = "new"
    /\ logFile = lf
    /\ logLast = NoLogCall
    /\ lastInit = NoLogger
    /\ fileBuiltByInit = NoLogger
    /\ setPath = sp
    /\ lpc = [g \in Goroutines |-> "idle"]
    /\ lframe = [g \in Goroutines |-> NoLogFrame]
    /\ initRuns = 0

\* The package after init(): logFile is the environment variable or the
\* default path.
PackageInit(env) ==
    PackageState(env, IF env = "" THEN DefaultLogFile ELSE env,
                 [valid |-> FALSE, path |-> ""])

Init ==
    /\ InitManager
    /\ payload = "OrderUpdate"
    /\ InitFactory
    /\ NewSecretManager(EmptyMap, TRUE)
    /\ PackageInit("")

(***************************************************************************)
(* The methods, each called to completion by one caller.                   *)
(***************************************************************************)
MakeLimitOrder(strategyID, acctID, symbolID, side, price, quantity) ==
    /\ Len(returned) < MaxOrders
    /\ LET id == NextClientOrderID(clientOrderID)
           order == NewLimitOrder(id, strategyID, acctID, symbolID, side,
                                  price, quantity)
       IN  /\ clientOrderID' = id
           /\ activeOrders' = MapAssign(activeOrders, id, order)
           /\ returned' = Append(returned, id)
           /\ last' = [op |-> "MakeLimitOrder",
                       args |-> [strategyID |-> strategyID, acctID |-> acctID,
                                 symbolID |-> symbolID, side |-> side,
                                 price |-> price, quantity |-> quantity],
                       id |-> id, err |-> "nil"]
    /\ UNCHANGED <<client, venueSubmits>>
    /\ UNCHANGED <<concVars, subVars, facVars, smsVars, logVars>>

MakeMarketOrder(strategyID, acctID, symbolID, side, quantity) ==
    /\ Len(returned) < MaxOrders
    /\ LET id == NextClientOrderID(clientOrderID)
           order == NewMarketOrder(id, strategyID, acctID, symbolID, side,
                                   quantity)
       IN  /\ clientOrderID' = id
           /\ activeOrders' = MapAssign(activeOrders, id, order)
           /\ returned' = Append(returned, id)
           /\ last' = [op |-> "MakeMarketOrder",
                       args |-> [strategyID |-> strategyID, acctID |-> acctID,
                                 symbolID |-> symbolID, side |-> side,
                                 price |-> 0, quantity |-> quantity],
                       id |-> id, err |-> "nil"]
    /\ UNCHANGED <<client, venueSubmits>>
    /\ UNCHANGED <<concVars, subVars, facVars, smsVars, logVars>>

\* SubmitOrder: returns nil; no lookup, no call of a venue Client.
SubmitOrder(id) ==
    /\ last' = [op |-> "SubmitOrder", args |-> NoArgs, id |-> id,
                err |-> SubmitOrderResult(id)]
    /\ UNCHANGED <<clientOrderID, activeOrders, client, returned, venueSubmits>>
    /\ UNCHANGED <<concVars, subVars, facVars, smsVars, logVars>>

\* CancelOrder: returns nil.
CancelOrder(id) ==
    /\ last' = [op |-> "CancelOrder", args |-> NoArgs, id |-> id,
                err |-> CancelOrderResult(id)]
    /\ UNCHANGED <<clientOrderID, activeOrders, client, returned, venueSubmits>>
    /\ UNCHANGED <<concVars, subVars, facVars, smsVars, logVars>>

\* SubscribeOrderUpdate: returns an empty unsubscribe function and nil.
SubscribeOrderUpdate(acctID) ==
    /\ last' = [op |-> "SubscribeOrderUpdate",
                args |-> [NoArgs EXCEPT !.acctID = acctID], id |-> 0,
                err |-> "nil"]
    /\ UNCHANGED <<clientOrderID, activeOrders, client, returned, venueSubmits>>
    /\ UNCHANGED <<concVars, subVars, facVars, smsVars, logVars>>

\* SubscribeOrderFill: returns an empty unsubscribe function and nil.
SubscribeOrderFill(acctID) ==
    /\ last' = [op |-> "SubscribeOrderFill",
                args |-> [NoArgs EXCEPT !.acctID = acctID], id |-> 0,
                err |-> "nil"]
    /\ UNCHANGED <<clientOrderID, activeOrders, client, returned, venueSubmits>>
    /\ UNCHANGED <<concVars, subVars, facVars, smsVars, logVars>>

DoMakeLimitOrder ==
    \E s \in StrategyIDs, a \in AcctIDs, y \in SymbolIDs, d \in Sides,
       p \in Prices, q \in Quantities : MakeLimitOrder(s, a, y, d, p, q)

DoMakeMarketOrder ==
    \E s \in StrategyIDs, a \in AcctIDs, y \in SymbolIDs, d \in Sides,
       q \in Quantities : MakeMarketOrder(s, a, y, d, q)

DoSubmitOrder == \E id \in SubmitIDs : SubmitOrder(id)

DoCancelOrder == \E id \in SubmitIDs : CancelOrder(id)

DoSubscribeOrderUpdate == \E a \in AcctIDs : SubscribeOrderUpdate(a)

DoSubscribeOrderFill == \E a \in AcctIDs : SubscribeOrderFill(a)

Next ==
    \/ DoMakeLimitOrder
    \/ DoMakeMarketOrder
    \/ DoSubmitOrder
    \/ DoCancelOrder
    \/ DoSubscribeOrderUpdate
    \/ DoSubscribeOrderFill

Spec == Init /\ [][Next]_vars

(***************************************************************************)
(* MakeLimitOrder / MakeMarketOrder called from several goroutines.  The   *)
(* methods hold no lock, so the statements of one call interleave with     *)
(* those of another at every access to e.clientOrderID and e.activeOrders. *)
(* Goroutine g calls with strategyID = g, acctID 7, symbolID 42, SideBuy,  *)
(* price 100, quantity 10.                                                 *)
(*                                                                         *)
(* The accesses race.  A read of e.clientOrderID after the increment may   *)
(* be served from memory or from the value the goroutine itself computed   *)
(* (frame.reg): both are outcomes a build can produce.  Two map            *)
(* assignments that overlap may be caught by the runtime (fatal error:     *)
(* concurrent map writes, the process ends), or go unnoticed, and then an  *)
(* assignment may take effect or be lost.                                  *)
(***************************************************************************)
CallerArgs == [acctID |-> 7, symbolID |-> 42, price |-> 100, quantity |-> 10]

\* A racing read of e.clientOrderID by goroutine g.
RacyRead(g) == {clientOrderID, frame[g].reg}

\* The call begins: the arguments are on the goroutine's stack.
GoCall(g, kind) ==
    /\ ~crashed
    /\ pc[g] = "idle"
    /\ frame[g].n < CallsPerGoroutine
    /\ pc' = [pc EXCEPT ![g] = "load"]
    /\ frame' = [frame EXCEPT ![g] = [NoFrame EXCEPT !.kind = kind,
                                                     !.n = frame[g].n + 1]]
    /\ UNCHANGED <<clientOrderID, activeOrders, client, returned, crashed,
                   raced, completed>>
    /\ UNCHANGED <<seqVars, subVars, facVars, smsVars, logVars>>

\* e.clientOrderID++, the load.
IncLoad(g) ==
    /\ ~crashed
    /\ pc[g] = "load"
    /\ frame' = [frame EXCEPT ![g].tmp = clientOrderID]
    /\ pc' = [pc EXCEPT ![g] = "store"]
    /\ UNCHANGED <<clientOrderID, activeOrders, client, returned, crashed,
                   raced, completed>>
    /\ UNCHANGED <<seqVars, subVars, facVars, smsVars, logVars>>

\* e.clientOrderID++, the store.
IncStore(g) ==
    /\ ~crashed
    /\ pc[g] = "store"
    /\ clientOrderID' = NextClientOrderID(frame[g].tmp)
    /\ frame' = [frame EXCEPT ![g].reg = NextClientOrderID(frame[g].tmp)]
    /\ pc' = [pc EXCEPT ![g] = "build"]
    /\ UNCHANGED <<activeOrders, client, returned, crashed, raced, completed>>
    /\ UNCHANGED <<seqVars, subVars, facVars, smsVars, logVars>>

\* order := Order{..., ClientOrderID: e.clientOrderID, ...}
BuildOrder(g) ==
    /\ ~crashed
    /\ pc[g] = "build"
    /\ \E id \in RacyRead(g) :
         frame' = [frame EXCEPT ![g].order =
                     IF frame[g].kind = TypeLimit
                     THEN NewLimitOrder(id, g, CallerArgs.acctID,
                                        CallerArgs.symbolID, SideBuy,
                                        CallerArgs.price, CallerArgs.quantity)
                     ELSE NewMarketOrder(id, g, CallerArgs.acctID,
                                         CallerArgs.symbolID, SideBuy,
                                         CallerArgs.quantity)]
    /\ pc' = [pc EXCEPT ![g] = "assign"]
    /\ UNCHANGED <<clientOrderID, activeOrders, client, returned, crashed,
                   raced, completed>>
    /\ UNCHANGED <<seqVars, subVars, facVars, smsVars, logVars>>

\* e.activeOrders[e.clientOrderID] = order: the key is read and the map
\* assignment begins.  If another goroutine is inside a map assignment, the
\* two writes overlap: the runtime may end the process.
MapAssignBegin(g) ==
    /\ ~crashed
    /\ pc[g] = "assign"
    /\ \E k \in RacyRead(g) : frame' = [frame EXCEPT ![g].key = k]
    /\ pc' = [pc EXCEPT ![g] = "assigning"]
    /\ LET others == {h \in Goroutines : h # g /\ pc[h] = "assigning"}
       IN  IF others = {}
           THEN UNCHANGED <<crashed, raced>>
           ELSE /\ raced' = raced \cup {g} \cup others
                /\ crashed' \in {TRUE, FALSE}
    /\ UNCHANGED <<clientOrderID, activeOrders, client, returned, completed>>
    /\ UNCHANGED <<seqVars, subVars, facVars, smsVars, logVars>>

\* The map assignment ends.  An assignment that overlapped another one may
\* be lost.
MapAssignEnd(g) ==
    /\ ~crashed
    /\ pc[g] = "assigning"
    /\ \/ activeOrders' = MapAssign(activeOrders, frame[g].key, frame[g].order)
       \/ /\ g \in raced
          /\ UNCHANGED activeOrders
    /\ raced' = raced \ {g}
    /\ pc' = [pc EXCEPT ![g] = "ret"]
    /\ UNCHANGED <<clientOrderID, client, returned, frame, crashed, completed>>
    /\ UNCHANGED <<seqVars, subVars, facVars, smsVars, logVars>>

\* return e.clientOrderID, nil
GoReturn(g) ==
    /\ ~crashed
    /\ pc[g] = "ret"
    /\ \E id \in RacyRead(g) :
         /\ returned' = Append(returned, id)
         /\ completed' = Append(completed,
                                [g |-> g, id |-> id, kind |-> frame[g].kind])
    /\ pc' = [pc EXCEPT ![g] = "idle"]
    /\ UNCHANGED <<clientOrderID, activeOrders, client, frame, crashed, raced>>
    /\ UNCHANGED <<seqVars, subVars, facVars, smsVars, logVars>>

DoGoCall == \E g \in Goroutines, kind \in {TypeLimit, TypeMarket} : GoCall(g, kind)

DoIncLoad == \E g \in Goroutines : IncLoad(g)

DoIncStore == \E g \in Goroutines : IncStore(g)

DoBuildOrder == \E g \in Goroutines : BuildOrder(g)

DoMapAssignBegin == \E g \in Goroutines : MapAssignBegin(g)

DoMapAssignEnd == \E g \in Goroutines : MapAssignEnd(g)

DoGoReturn == \E g \in Goroutines : GoReturn(g)

ConcNext ==
    \/ DoGoCall
    \/ DoIncLoad
    \/ DoIncStore
    \/ DoBuildOrder
    \/ DoMapAssignBegin
    \/ DoMapAssignEnd
    \/ DoGoReturn

ConcSpec == Init /\ [][ConcNext]_vars

(***************************************************************************)
(* SubscribeOrderUpdate / SubscribeOrderFill with the caller keeping the   *)
(* unsubscribe function it is given.  unsubs[h] is the h-th function       *)
(* handed out, with the number of times it has been called.  Both methods  *)
(* return the function literal `func() {}`: a call of it runs an empty     *)
(* body.                                                                   *)
(***************************************************************************)
\* An unsubscribe that may be run once only (it closes a channel, say).
UnsubscribeOutcome_OnceOnly(callsBefore) ==
    IF callsBefore >= 1 THEN "panic" ELSE "nil"

\* How a call of the returned func() {} ends, callsBefore calls having been
\* made before: it returns.
UnsubscribeOutcome(callsBefore) == "nil"

SubscribeOrderUpdateKeep(acctID) ==
    /\ Len(unsubs) < MaxSubs
    /\ unsubs' = Append(unsubs, [topic |-> "OrderUpdate", acctID |-> acctID,
                                 calls |-> 0])
    /\ last' = [op |-> "SubscribeOrderUpdate",
                args |-> [NoArgs EXCEPT !.acctID = acctID], id |-> 0,
                err |-> "nil"]
    /\ UNCHANGED <<clientOrderID, activeOrders, client, returned, venueSubmits>>
    /\ UNCHANGED <<concVars, facVars, smsVars, logVars>>

SubscribeOrderFillKeep(acctID) ==
    /\ Len(unsubs) < MaxSubs
    /\ unsubs' = Append(unsubs, [topic |-> "OrderFill", acctID |-> acctID,
                                 calls |-> 0])
    /\ last' = [op |-> "SubscribeOrderFill",
                args |-> [NoArgs EXCEPT !.acctID = acctID], id |-> 0,
                err |-> "nil"]
    /\ UNCHANGED <<clientOrderID, activeOrders, client, returned, venueSubmits>>
    /\ UNCHANGED <<concVars, facVars, smsVars, logVars>>

\* A call of the h-th unsubscribe function.
Unsubscribe(h) ==
    /\ h \in 1 .. Len(unsubs)
    /\ unsubs[h].calls < MaxUnsubCalls
    /\ last.err # "panic"
    /\ unsubs' = [unsubs EXCEPT ![h].calls = @ + 1]
    /\ last' = [op |-> "unsubscribe", args |-> NoArgs, id |-> h,
                err |-> UnsubscribeOutcome(unsubs[h].calls)]
    /\ UNCHANGED <<clientOrderID, activeOrders, client, returned, venueSubmits>>
    /\ UNCHANGED <<concVars, facVars, smsVars, logVars>>

DoSubscribeOrderUpdateKeep == \E a \in AcctIDs : SubscribeOrderUpdateKeep(a)

DoSubscribeOrderFillKeep == \E a \in AcctIDs : SubscribeOrderFillKeep(a)

DoUnsubscribe == \E h \in 1 .. MaxSubs : Unsubscribe(h)

\* The one creation the subscribing caller makes.
DoMakeOrderSub == MakeLimitOrder(1, 7, 42, SideBuy, 100, 10)

SubNext ==
    \/ DoMakeOrderSub
    \/ DoSubscribeOrderUpdateKeep
    \/ DoSubscribeOrderFillKeep
    \/ DoUnsubscribe

SubSpec == Init /\ [][SubNext]_vars

(***************************************************************************)
(* EventFactory[T] used by several goroutines (workers) at once.  A worker *)
(* calls GetEvent, may fill in the payload, and calls PutEvent on the      *)
(* envelope it holds.  The pool and the counter are the only shared state: *)
(* eventPool.Get, nextEventID.Add and eventPool.Put are atomic, and the    *)
(* writes to an envelope are made by the one worker that holds it.         *)
(* sync.Pool may drop a pooled envelope at any time (PoolDrop); its Get    *)
(* calls New when it finds the pool empty.                                 *)
(***************************************************************************)
FreeEnvelopes == {e \in Envelopes : e \notin eventPool
                                    /\ \A w \in Workers : held[w] # e}

MinOf(S) == CHOOSE x \in S : \A y \in S : x <= y

\* A pool whose Get hands out an envelope without taking it from anyone:
\* any envelope, held or not.
PoolGetChoices_AnyEnvelope(pooled, free) == Envelopes

\* A pool built without New: Get on an empty pool yields nil.
PoolGetChoices_NoNew(pooled, free) ==
    IF pooled # {} THEN pooled ELSE {Nil}

\* eventPool.Get(): a pooled envelope, or the one New allocates: Get calls
\* New when it finds the pool empty and may also do so when it is not (it
\* may ignore the pool, which then keeps its envelopes).
PoolGetChoices(pooled, free) ==
    pooled \cup (IF free # {} THEN {MinOf(free)} ELSE {})

\* A counter whose Add does not advance past 1.
AtomicAdd_Stuck(c) == 1

\* nextEventID.Add(1)
AtomicAdd(c) == c + 1

\* A PutEvent that leaves the EventID in place.
ClearEnvelope_KeepsID(ev) ==
    [ev EXCEPT !.CreatedAt = TimeZero, !.UpdatedAt = TimeZero]

\* PutEvent: event.EventID = 0; CreatedAt and UpdatedAt = time.Time{}.
ClearEnvelope(ev) ==
    [ev EXCEPT !.EventID = 0, !.CreatedAt = TimeZero, !.UpdatedAt = TimeZero]

GetsInFlight == Cardinality({w \in Workers : wpc[w] = "get_id"})

\* GetEvent: event := f.eventPool.Get().(*Event[T])
GetEventPool(w) ==
    /\ wpc[w] = "idle"
    /\ nextEventID + GetsInFlight < MaxEvents
    /\ \E e \in PoolGetChoices(eventPool, FreeEnvelopes) :
         /\ held' = [held EXCEPT ![w] = e]
         /\ recycled' = [recycled EXCEPT ![w] = (e \in eventPool)]
         /\ eventPool' = eventPool \ {e}
         /\ events' = IF e \in eventPool \/ e = Nil
                      THEN events
                      ELSE [events EXCEPT ![e] = NewEvent(payload)]
         /\ wpc' = [wpc EXCEPT ![w] = IF e = Nil THEN "panicked" ELSE "get_id"]
    /\ UNCHANGED <<payload, nextEventID, now, issued, written>>
    /\ UNCHANGED <<mgrVars, returned, seqVars, concVars, subVars, smsVars, logVars>>

\* GetEvent: event.EventID = f.nextEventID.Add(1)
GetEventID(w) ==
    /\ wpc[w] = "get_id"
    /\ held[w] # Nil
    /\ nextEventID' = AtomicAdd(nextEventID)
    /\ events' = [events EXCEPT ![held[w]].EventID = AtomicAdd(nextEventID)]
    /\ issued' = Append(issued, AtomicAdd(nextEventID))
    /\ wpc' = [wpc EXCEPT ![w] = "get_time"]
    /\ UNCHANGED <<payload, eventPool, now, held, recycled, written>>
    /\ UNCHANGED <<mgrVars, returned, seqVars, concVars, subVars, smsVars, logVars>>

\* GetEvent: now := time.Now().UTC(); CreatedAt = now; UpdatedAt = now;
\* return event.  The clock does not run backwards.
GetEventStamp(w) ==
    /\ wpc[w] = "get_time"
    /\ \E t \in {now, now + 1} :
         /\ t <= MaxClock
         /\ now' = t
         /\ events' = [events EXCEPT ![held[w]].CreatedAt = t,
                                     ![held[w]].UpdatedAt = t]
    /\ wpc' = [wpc EXCEPT ![w] = "acquired"]
    /\ UNCHANGED <<payload, nextEventID, eventPool, held, recycled, issued, written>>
    /\ UNCHANGED <<mgrVars, returned, seqVars, concVars, subVars, smsVars, logVars>>

\* The holder sets the fields of event.Data.
WriteData(w) ==
    /\ wpc[w] = "acquired"
    /\ events' = [events EXCEPT ![held[w]].Data = FilledData(payload, now)]
    /\ written' = written \cup {held[w]}
    /\ wpc' = [wpc EXCEPT ![w] = "holding"]
    /\ UNCHANGED <<payload, nextEventID, eventPool, now, held, recycled, issued>>
    /\ UNCHANGED <<mgrVars, returned, seqVars, concVars, subVars, smsVars, logVars>>

\* PutEvent: f.resetFn(&event.Data), then the envelope's metadata is cleared.
PutEventReset(w) ==
    /\ wpc[w] \in {"acquired", "holding"}
    /\ events' = [events EXCEPT ![held[w]] =
                    ClearEnvelope([@ EXCEPT !.Data = ResetFn(payload, @)])]
    /\ wpc' = [wpc EXCEPT ![w] = "put"]
    /\ UNCHANGED <<payload, nextEventID, eventPool, now, held, recycled, issued, written>>
    /\ UNCHANGED <<mgrVars, returned, seqVars, concVars, subVars, smsVars, logVars>>

\* PutEvent: f.eventPool.Put(event)
PutEventPool(w) ==
    /\ wpc[w] = "put"
    /\ eventPool' = eventPool \cup {held[w]}
    /\ held' = [held EXCEPT ![w] = Nil]
    /\ recycled' = [recycled EXCEPT ![w] = FALSE]
    /\ wpc' = [wpc EXCEPT ![w] = "idle"]
    /\ UNCHANGED <<payload, nextEventID, events, now, issued, written>>
    /\ UNCHANGED <<mgrVars, returned, seqVars, concVars, subVars, smsVars, logVars>>

\* sync.Pool drops a pooled envelope (a garbage collection).
PoolDrop(e) ==
    /\ e \in eventPool
    /\ eventPool' = eventPool \ {e}
    /\ events' = [events EXCEPT ![e] = NewEvent(payload)]
    /\ written' = written \ {e}
    /\ UNCHANGED <<payload, nextEventID, now, wpc, held, recycled, issued>>
    /\ UNCHANGED <<mgrVars, returned, seqVars, concVars, subVars, smsVars, logVars>>

DoGetEventPool == \E w \in Workers : GetEventPool(w)

DoGetEventID == \E w \in Workers : GetEventID(w)

DoGetEventStamp == \E w \in Workers : GetEventStamp(w)

DoWriteData == \E w \in Workers : WriteData(w)

DoPutEventReset == \E w \in Workers : PutEventReset(w)

DoPutEventPool == \E w \in Workers : PutEventPool(w)

DoPoolDrop == \E e \in Envelopes : PoolDrop(e)

FacNext ==
    \/ DoGetEventPool
    \/ DoGetEventID
    \/ DoGetEventStamp
    \/ DoWriteData
    \/ DoPutEventReset
    \/ DoPutEventPool
    \/ DoPoolDrop

\* Either of the two factories NewExecutionManager builds.
FacInit ==
    /\ InitManager
    /\ payload \in PayloadTypes
    /\ InitFactory
    /\ NewSecretManager(EmptyMap, TRUE)
    /\ PackageInit("")

FactorySpec == FacInit /\ [][FacNext]_vars

(***************************************************************************)
(* SecretManager driven by one caller.  dbUp is whether the database       *)
(* answers the statement of this call.  When NewSecretManager returned an  *)
(* error there is no manager and no method is called.                      *)
(***************************************************************************)
AddSecret(secret, dbUp) ==
    /\ HasSecretManager
    /\ IF secret.AcctID \in DOMAIN secrets
       THEN /\ smsLast' = [op |-> "AddSecret", acctID |-> secret.AcctID,
                           err |-> "secret already exists", value |-> secret]
            /\ UNCHANGED <<secrets, dbRows>>
       ELSE LET res == DbExecInsert(dbRows, secret, dbUp)
            IN  /\ secrets' = MapAssign(secrets, secret.AcctID, secret)
                /\ dbRows' = res.rows
                /\ smsLast' = [op |-> "AddSecret", acctID |-> secret.AcctID,
                               err |-> res.err, value |-> secret]
    /\ UNCHANGED <<mgrVars, returned, seqVars, concVars, subVars, facVars, logVars>>

GetSecret(acctID) ==
    /\ HasSecretManager
    /\ LET res == GetSecretResult(secrets, acctID)
       IN  smsLast' = [op |-> "GetSecret", acctID |-> acctID,
                       err |-> res.err, value |-> res.value]
    /\ UNCHANGED <<secrets, dbRows>>
    /\ UNCHANGED <<mgrVars, returned, seqVars, concVars, subVars, facVars, logVars>>

DoAddSecret == \E secret \in Secrets, dbUp \in BOOLEAN : AddSecret(secret, dbUp)

DoGetSecret == \E acctID \in SmsAcctIDs : GetSecret(acctID)

SmsNext ==
    \/ DoAddSecret
    \/ DoGetSecret

SmsInit ==
    /\ InitManager
    /\ payload = "OrderUpdate"
    /\ InitFactory
    /\ \E rows \in SecretTables, dbUp \in BOOLEAN : NewSecretManager(rows, dbUp)
    /\ PackageInit("")

SmsSpec == SmsInit /\ [][SmsNext]_vars

(***************************************************************************)
(* The logger package driven by one caller: every exported function is one *)
(* atomic action.  lastInit, fileBuiltByInit and setPath record what the   *)
(* calls did: the logger the most recent successful Init built, the file   *)
(* logger a file-output Init built (until a SetLogFile), and the path of   *)
(* the most recent SetLogFile (until a file-output Init).                  *)
(***************************************************************************)
otherVars == <<mgrVars, returned, seqVars, concVars, subVars, facVars, smsVars>>

LoggerInit(opts) ==
    LET level == ParseLogLevel(opts.Level)
        file  == OutputKind(opts.Output) = "file"
        err   == InitErr(opts, envLogFile)
        built == InitBuilt(opts, envLogFile)
    IN  /\ globalLevel' = level
        /\ IF err # "nil"
           THEN UNCHANGED <<globalLogger, globalLoggerInitialized, fileLogger,
                            fileLoggerInitialized, logFile, lastInit,
                            fileBuiltByInit, setPath>>
           ELSE /\ IF file
                   THEN /\ logFile' = InitPath(opts, envLogFile)
                        /\ fileLogger' = built
                        /\ fileLoggerInitialized' = TRUE
                        /\ fileBuiltByInit' = built
                        /\ setPath' = [valid |-> FALSE, path |-> ""]
                   ELSE UNCHANGED <<logFile, fileLogger, fileLoggerInitialized,
                                    fileBuiltByInit, setPath>>
                /\ globalLogger' = built
                /\ globalLoggerInitialized' = TRUE
                /\ lastInit' = built
        /\ logLast' = [op |-> "Init",
                       path |-> IF file THEN InitPath(opts, envLogFile) ELSE "",
                       err |-> err, logger |-> NoLogger, file |-> "n/a",
                       prevOp |-> logLast.op, ranInit |-> FALSE]
        /\ UNCHANGED <<globalLoggerMutex, fileLoggerInit, envLogFile, lpc,
                       lframe, initRuns>>
        /\ UNCHANGED otherVars

LoggerGet ==
    /\ logLast' = [op |-> "Get", path |-> "", err |-> "nil",
                   logger |-> GetResult(globalLoggerInitialized, globalLogger),
                   file |-> "n/a", prevOp |-> logLast.op, ranInit |-> FALSE]
    /\ UNCHANGED <<globalLevel, globalLogger, globalLoggerInitialized,
                   globalLoggerMutex, fileLogger, fileLoggerInitialized,
                   fileLoggerInit, logFile, envLogFile, lastInit,
                   fileBuiltByInit, setPath, lpc, lframe, initRuns>>
    /\ UNCHANGED otherVars

\* GetLogger(LoggerTypeFile): getFileLogger, with initFileLogger run by the
\* Once when this is its first call.
GetLoggerFile ==
    LET run == OnceEnter(fileLoggerInit) = "run"
        fl  == IF run THEN InitFileLoggerResult(logFile) ELSE fileLogger
    IN  /\ fileLogger' = fl
        /\ fileLoggerInitialized' = (run \/ fileLoggerInitialized)
        /\ fileLoggerInit' = "done"
        /\ initRuns' = IF run THEN initRuns + 1 ELSE initRuns
        /\ logLast' = [op |-> "GetLoggerFile", path |-> "", err |-> "nil",
                       logger |-> fl, file |-> "n/a", prevOp |-> logLast.op,
                       ranInit |-> run]
        /\ UNCHANGED <<globalLevel, globalLogger, globalLoggerInitialized,
                       globalLoggerMutex, logFile, envLogFile, lastInit,
                       fileBuiltByInit, setPath, lpc, lframe>>
        /\ UNCHANGED otherVars

\* GetLogger(LoggerTypeConsole), and GetLogger of any other type.
GetLoggerConsole ==
    /\ logLast' = [op |-> "GetLoggerConsole", path |-> "", err |-> "nil",
                   logger |-> ConsoleLogger, file |-> "n/a",
                   prevOp |-> logLast.op, ranInit |-> FALSE]
    /\ UNCHANGED <<globalLevel, globalLogger, globalLoggerInitialized,
                   globalLoggerMutex, fileLogger, fileLoggerInitialized,
                   fileLoggerInit, logFile, envLogFile, lastInit,
                   fileBuiltByInit, setPath, lpc, lframe, initRuns>>
    /\ UNCHANGED otherVars

SetLogFile(path) ==
    LET out == SetLogFileOutcome(path, fileLoggerInitialized, fileLogger)
    IN  /\ logFile' = path
        /\ fileLogger' = out.fileLogger
        /\ setPath' = [valid |-> TRUE, path |-> path]
        /\ fileBuiltByInit' = NoLogger
        /\ logLast' = [op |-> "SetLogFile", path |-> path, err |-> out.err,
                       logger |-> NoLogger, file |-> "n/a",
                       prevOp |-> logLast.op, ranInit |-> FALSE]
        /\ UNCHANGED <<globalLevel, globalLogger, globalLoggerInitialized,
                       globalLoggerMutex, fileLoggerInitialized, fileLoggerInit,
                       envLogFile, lastInit, lpc, lframe, initRuns>>
        /\ UNCHANGED otherVars

GetLogFile ==
    /\ logLast' = [op |-> "GetLogFile", path |-> "", err |-> "nil",
                   logger |-> NoLogger, file |-> GetLogFileResult(logFile),
                   prevOp |-> logLast.op, ranInit |-> FALSE]
    /\ UNCHANGED <<globalLevel, globalLogger, globalLoggerInitialized,
                   globalLoggerMutex, fileLogger, fileLoggerInitialized,
                   fileLoggerInit, logFile, envLogFile, lastInit,
                   fileBuiltByInit, setPath, lpc, lframe, initRuns>>
    /\ UNCHANGED otherVars

DoLoggerInit == \E opts \in Options : LoggerInit(opts)

DoSetLogFile == \E path \in LogPaths : SetLogFile(path)

LoggerNext ==
    \/ DoLoggerInit
    \/ LoggerGet
    \/ GetLoggerFile
    \/ GetLoggerConsole
    \/ DoSetLogFile
    \/ GetLogFile

LoggerInitState ==
    /\ InitManager
    /\ payload = "OrderUpdate"
    /\ InitFactory
    /\ NewSecretManager(EmptyMap, TRUE)
    /\ \E env \in EnvValues : PackageInit(env)

LoggerSpec == LoggerInitState /\ [][LoggerNext]_vars

(***************************************************************************)
(* Init and Get called by several goroutines at once.  Init holds          *)
(* globalLoggerMutex from its first statement to its return; every         *)
(* statement of it is a step, and the assignment of the logger struct to   *)
(* globalLogger is two steps (a struct is not copied atomically).  Get     *)
(* holds the read lock for its whole body, so it is one step, taken when   *)
(* no writer holds the mutex.                                              *)
(***************************************************************************)
logFileVars == <<fileLogger, fileLoggerInitialized, logFile, fileBuiltByInit,
                 setPath>>

InitLock(g, opts) ==
    /\ lpc[g] = "idle"
    /\ CanLock(globalLoggerMutex)
    /\ globalLoggerMutex' = g
    /\ lframe' = [lframe EXCEPT ![g] = [opts |-> opts, built |-> NoLogger]]
    /\ lpc' = [lpc EXCEPT ![g] = "init_level"]
    /\ UNCHANGED <<globalLevel, globalLogger, globalLoggerInitialized,
                   fileLoggerInit, envLogFile, logLast, lastInit, initRuns>>
    /\ UNCHANGED logFileVars
    /\ UNCHANGED otherVars

\* zerolog.SetGlobalLevel(parseLogLevel(opts.Level))
InitSetLevel(g) ==
    /\ lpc[g] = "init_level"
    /\ globalLevel' = ParseLogLevel(lframe[g].opts.Level)
    /\ lpc' = [lpc EXCEPT ![g] = "init_writer"]
    /\ UNCHANGED <<globalLogger, globalLoggerInitialized, globalLoggerMutex,
                   fileLoggerInit, envLogFile, logLast, lastInit, lframe,
                   initRuns>>
    /\ UNCHANGED logFileVars
    /\ UNCHANGED otherVars

\* The switch on the output: the writer is chosen; the file branch returns
\* the error of createFileWriter (the deferred Unlock runs), or records the
\* path and the file logger.
InitWriter(g) ==
    /\ lpc[g] = "init_writer"
    /\ LET opts  == lframe[g].opts
           file  == OutputKind(opts.Output) = "file"
           err   == InitErr(opts, envLogFile)
           built == InitBuilt(opts, envLogFile)
       IN  IF err # "nil"
           THEN /\ globalLoggerMutex' = Nil
                /\ lpc' = [lpc EXCEPT ![g] = "idle"]
                /\ lframe' = [lframe EXCEPT ![g] = NoLogFrame]
                /\ logLast' = [op |-> "Init", path |-> InitPath(opts, envLogFile),
                               err |-> err, logger |-> NoLogger, file |-> "n/a",
                               prevOp |-> logLast.op, ranInit |-> FALSE]
                /\ UNCHANGED logFileVars
           ELSE /\ IF file
                   THEN /\ logFile' = InitPath(opts, envLogFile)
                        /\ fileLogger' = built
                        /\ fileLoggerInitialized' = TRUE
                        /\ fileBuiltByInit' = built
                        /\ setPath' = [valid |-> FALSE, path |-> ""]
                   ELSE UNCHANGED logFileVars
                /\ lframe' = [lframe EXCEPT ![g].built = built]
                /\ lpc' = [lpc EXCEPT ![g] = "init_assign"]
                /\ UNCHANGED <<globalLoggerMutex, logLast>>
    /\ UNCHANGED <<globalLevel, globalLogger, globalLoggerInitialized,
                   fileLoggerInit, envLogFile, lastInit, initRuns>>
    /\ UNCHANGED otherVars

\* globalLogger = zerolog.New(writer)...Level(level): the first words of
\* the struct are copied.
InitAssignBegin(g) ==
    /\ lpc[g] = "init_assign"
    /\ globalLogger' = [globalLogger EXCEPT !.out = lframe[g].built.out,
                                            !.rotate = lframe[g].built.rotate]
    /\ lpc' = [lpc EXCEPT ![g] = "init_assigning"]
    /\ UNCHANGED <<globalLevel, globalLoggerInitialized, globalLoggerMutex,
                   fileLoggerInit, envLogFile, logLast, lastInit, lframe,
                   initRuns>>
    /\ UNCHANGED logFileVars
    /\ UNCHANGED otherVars

\* The rest of the struct is copied.
InitAssignEnd(g) ==
    /\ lpc[g] = "init_assigning"
    /\ globalLogger' = lframe[g].built
    /\ lpc' = [lpc EXCEPT ![g] = "init_flag"]
    /\ UNCHANGED <<globalLevel, globalLoggerInitialized, globalLoggerMutex,
                   fileLoggerInit, envLogFile, logLast, lastInit, lframe,
                   initRuns>>
    /\ UNCHANGED logFileVars
    /\ UNCHANGED otherVars

\* globalLoggerInitialized = true
InitSetFlag(g) ==
    /\ lpc[g] = "init_flag"
    /\ globalLoggerInitialized' = TRUE
    /\ lastInit' = lframe[g].built
    /\ lpc' = [lpc EXCEPT ![g] = "init_unlock"]
    /\ UNCHANGED <<globalLevel, globalLogger, globalLoggerMutex,
                   fileLoggerInit, envLogFile, logLast, lframe, initRuns>>
    /\ UNCHANGED logFileVars
    /\ UNCHANGED otherVars

\* return nil, and the deferred globalLoggerMutex.Unlock().
InitUnlock(g) ==
    /\ lpc[g] = "init_unlock"
    /\ globalLoggerMutex' = Nil
    /\ lpc' = [lpc EXCEPT ![g] = "idle"]
    /\ lframe' = [lframe EXCEPT ![g] = NoLogFrame]
    /\ logLast' = [op |-> "Init", path |-> "", err |-> "nil",
                   logger |-> NoLogger, file |-> "n/a",
                   prevOp |-> logLast.op, ranInit |-> FALSE]
    /\ UNCHANGED <<globalLevel, globalLogger, globalLoggerInitialized,
                   fileLoggerInit, envLogFile, lastInit, initRuns>>
    /\ UNCHANGED logFileVars
    /\ UNCHANGED otherVars

\* Get, called by goroutine g.
ConcGet(g) ==
    /\ lpc[g] = "idle"
    /\ CanRLock(globalLoggerMutex)
    /\ logLast' = [op |-> "Get", path |-> "", err |-> "nil",
                   logger |-> GetResult(globalLoggerInitialized, globalLogger),
                   file |-> "n/a", prevOp |-> logLast.op, ranInit |-> FALSE]
    /\ UNCHANGED <<globalLevel, globalLogger, globalLoggerInitialized,
                   globalLoggerMutex, fileLoggerInit, envLogFile, lastInit,
                   lpc, lframe, initRuns>>
    /\ UNCHANGED logFileVars
    /\ UNCHANGED otherVars

DoInitLock == \E g \in Goroutines, opts \in Options : InitLock(g, opts)

DoInitSetLevel == \E g \in Goroutines : InitSetLevel(g)

DoInitWriter == \E g \in Goroutines : InitWriter(g)

DoInitAssignBegin == \E g \in Goroutines : InitAssignBegin(g)

DoInitAssignEnd == \E g \in Goroutines : InitAssignEnd(g)

DoInitSetFlag == \E g \in Goroutines : InitSetFlag(g)

DoInitUnlock == \E g \in Goroutines : InitUnlock(g)

DoConcGet == \E g \in Goroutines : ConcGet(g)

InitGetNext ==
    \/ DoInitLock
    \/ DoInitSetLevel
    \/ DoInitWriter
    \/ DoInitAssignBegin
    \/ DoInitAssignEnd
    \/ DoInitSetFlag
    \/ DoInitUnlock
    \/ DoConcGet

InitGetSpec == LoggerInitState /\ [][InitGetNext]_vars

(***************************************************************************)
(* GetLogger(LoggerTypeFile) called by several goroutines at once, in a    *)
(* process that has not used the file logger (it may have called           *)
(* SetLogFile).  fileLoggerInit.Do lets one caller run initFileLogger and  *)
(* holds the others until the run is over; initFileLogger holds            *)
(* fileLoggerMutex for its whole body and the read of fileLogger holds the *)
(* read lock, so each is one step.                                         *)
(***************************************************************************)
logGlobalVars == <<globalLevel, globalLogger, globalLoggerInitialized,
                   globalLoggerMutex, envLogFile, lastInit, lframe>>

\* getFileLogger: fileLoggerInit.Do(initFileLogger), the entry.
FileOnceDo(g) ==
    /\ lpc[g] = "idle"
    /\ OnceEnter(fileLoggerInit) # "wait"
    /\ IF OnceEnter(fileLoggerInit) = "run"
       THEN /\ fileLoggerInit' = "running"
            /\ lpc' = [lpc EXCEPT ![g] = "once_run"]
       ELSE /\ UNCHANGED fileLoggerInit
            /\ lpc' = [lpc EXCEPT ![g] = "file_read"]
    /\ UNCHANGED <<logLast, initRuns>>
    /\ UNCHANGED logFileVars
    /\ UNCHANGED logGlobalVars
    /\ UNCHANGED otherVars

\* initFileLogger, run by the Once.
InitFileLogger(g) ==
    /\ lpc[g] = "once_run"
    /\ fileLogger' = InitFileLoggerResult(logFile)
    /\ fileLoggerInitialized' = TRUE
    /\ initRuns' = initRuns + 1
    /\ lpc' = [lpc EXCEPT ![g] = "once_done"]
    /\ UNCHANGED <<fileLoggerInit, logFile, fileBuiltByInit, setPath, logLast>>
    /\ UNCHANGED logGlobalVars
    /\ UNCHANGED otherVars

\* fileLoggerInit.Do returns to the caller that ran initFileLogger: the Once
\* is done.
FileOnceDone(g) ==
    /\ lpc[g] = "once_done"
    /\ fileLoggerInit' = "done"
    /\ lpc' = [lpc EXCEPT ![g] = "file_read"]
    /\ UNCHANGED <<logLast, initRuns>>
    /\ UNCHANGED logFileVars
    /\ UNCHANGED logGlobalVars
    /\ UNCHANGED otherVars

\* getFileLogger: return fileLogger, read under the read lock.
FileRead(g) ==
    /\ lpc[g] = "file_read"
    /\ logLast' = [op |-> "GetLoggerFile", path |-> "", err |-> "nil",
                   logger |-> fileLogger, file |-> "n/a",
                   prevOp |-> logLast.op, ranInit |-> FALSE]
    /\ lpc' = [lpc EXCEPT ![g] = "idle"]
    /\ UNCHANGED <<fileLoggerInit, initRuns>>
    /\ UNCHANGED logFileVars
    /\ UNCHANGED logGlobalVars
    /\ UNCHANGED otherVars

DoFileOnceDo == \E g \in Goroutines : FileOnceDo(g)

DoInitFileLogger == \E g \in Goroutines : InitFileLogger(g)

DoFileOnceDone == \E g \in Goroutines : FileOnceDone(g)

DoFileRead == \E g \in Goroutines : FileRead(g)

FileOnceNext ==
    \/ DoFileOnceDo
    \/ DoInitFileLogger
    \/ DoFileOnceDone
    \/ DoFileRead

\* A process that made no call, or only a SetLogFile(p).
FileOnceInit ==
    /\ InitManager
    /\ payload = "OrderUpdate"
    /\ InitFactory
    /\ NewSecretManager(EmptyMap, TRUE)
    /\ \E env \in EnvValues :
         \/ PackageInit(env)
         \/ \E p \in LogPaths :
              PackageState(env, p, [valid |-> TRUE, path |-> p])

FileOnceSpec == FileOnceInit /\ [][FileOnceNext]_vars

(***************************************************************************)
(* Properties.                                                             *)
(***************************************************************************)
ReturnedIDs == {returned[i] : i \in 1 .. Len(returned)}

AllReturned == \A g \in Goroutines : pc[g] = "idle"

\* C1: the ids returned by MakeLimitOrder / MakeMarketOrder calls made one
\* after another are strictly increasing in call order, hence pairwise
\* distinct: no id is returned twice.
C1_IdsStrictlyIncreasing ==
    \A i, j \in 1 .. Len(returned) : i < j => returned[i] < returned[j]

\* C1 witness: three creations, a limit and a market order among them.
C1_Witness ==
    /\ Len(returned) >= 3
    /\ \E k \in DOMAIN activeOrders : activeOrders[k].Type = TypeLimit
    /\ \E k \in DOMAIN activeOrders : activeOrders[k].Type = TypeMarket

\* C2: under concurrent MakeLimitOrder / MakeMarketOrder calls the returned
\* ids are pairwise distinct and, once all calls have returned, every created
\* order is in the active-order map under its own id.
C2_ConcurrentCreateSafe ==
    /\ \A i, j \in 1 .. Len(completed) :
         i # j => completed[i].id # completed[j].id
    /\ (AllReturned /\ ~crashed) =>
         \A i \in 1 .. Len(completed) :
           /\ completed[i].id \in DOMAIN activeOrders
           /\ activeOrders[completed[i].id].ClientOrderID = completed[i].id
           /\ activeOrders[completed[i].id].StrategyID = completed[i].g
           /\ activeOrders[completed[i].id].Type = completed[i].kind

\* C3: right after MakeLimitOrder / MakeMarketOrder returns id n, the map
\* holds under n an order with ClientOrderID n, status Initialized, the
\* strategyID, acctID, symbolID and side of the call and the type of the
\* method; the first creation returns id 1.
C3_CreatedInitialized ==
    /\ last.op \in {"MakeLimitOrder", "MakeMarketOrder"} =>
         /\ last.err = "nil"
         /\ last.id \in DOMAIN activeOrders
         /\ LET o == activeOrders[last.id]
            IN  /\ o.ClientOrderID = last.id
                /\ o.Status = StatusInitialized
                /\ o.StrategyID = last.args.strategyID
                /\ o.AcctID = last.args.acctID
                /\ o.SymbolID = last.args.symbolID
                /\ o.Side = last.args.side
                /\ o.Type = IF last.op = "MakeLimitOrder" THEN TypeLimit
                                                          ELSE TypeMarket
    /\ Len(returned) >= 1 => returned[1] = 1

\* C3 witness: a limit order was just created as the second order, after a
\* first creation.
C3_Witness ==
    /\ last.op = "MakeLimitOrder"
    /\ last.id = 2
    /\ last.args.side = SideSell
    /\ returned = <<1, 2>>

\* C5: every order of the active-order map has 0 <= ExecutedQty <= Quantity,
\* whatever price and quantity were passed.
C5_ExecutedQtyWithinQuantity ==
    \A k \in DOMAIN activeOrders :
       /\ 0 <= activeOrders[k].ExecutedQty
       /\ activeOrders[k].ExecutedQty <= activeOrders[k].Quantity

\* C8: SubmitOrder(id) for an id no Make*Order call has returned fails with
\* OrderNotFoundError and changes no manager state.
C8_SubmitUnknownFails ==
    [][\A id \in SubmitIDs :
         (SubmitOrder(id) /\ id \notin ReturnedIDs) =>
            /\ last'.err = "OrderNotFoundError"
            /\ UNCHANGED mgrVars]_vars

\* C9: SubmitOrder(id) for an existing order whose account has no venue
\* Client registered fails with NoClientForAccountError.
C9_SubmitWithoutClientFails ==
    (/\ last.op = "SubmitOrder"
     /\ last.id \in DOMAIN activeOrders
     /\ activeOrders[last.id].AcctID \notin DOMAIN client)
    => last.err = "NoClientForAccountError"

\* C10: whenever SubmitOrder(id) returns nil, the call has invoked SubmitOrder
\* of the venue Client of the order's account exactly once, with that order.
C10_SubmitNilCallsVenue ==
    [][\A id \in SubmitIDs :
         (SubmitOrder(id) /\ last'.err = "nil") =>
            /\ id \in DOMAIN activeOrders
            /\ activeOrders[id].AcctID \in DOMAIN client
            /\ venueSubmits' = Append(venueSubmits,
                                      [acctID |-> activeOrders[id].AcctID,
                                       order |-> activeOrders[id]])]_vars

\* C12: MakeLimitOrder / MakeMarketOrder with a non-positive quantity, a
\* non-positive limit price or a symbolID the InstrumentCatalog does not know
\* fails with InvalidOrderError, inserts no order and consumes no id.
C12_InvalidOrderRejected ==
    [][/\ \A s \in StrategyIDs, a \in AcctIDs, y \in SymbolIDs, d \in Sides,
             p \in Prices, q \in Quantities :
            (/\ MakeLimitOrder(s, a, y, d, p, q)
             /\ (q <= 0 \/ p <= 0 \/ ~GetInstrumentFound(y)))
            => /\ last'.err = "InvalidOrderError"
               /\ UNCHANGED <<clientOrderID, activeOrders>>
       /\ \A s \in StrategyIDs, a \in AcctIDs, y \in SymbolIDs, d \in Sides,
             q \in Quantities :
            (/\ MakeMarketOrder(s, a, y, d, q)
             /\ (q <= 0 \/ ~GetInstrumentFound(y)))
            => /\ last'.err = "InvalidOrderError"
               /\ UNCHANGED <<clientOrderID, activeOrders>>]_vars

\* C13: an order leaves the active-order map only after reaching a terminal
\* status: every id a Make*Order call returned is a key of the map unless
\* its order was Filled, Canceled or Rejected (no method of the manager makes
\* an order terminal, so every returned id is a key), after any sequence of
\* Make*Order, SubmitOrder, CancelOrder and Subscribe* calls.
C13_ActiveUntilTerminal ==
    /\ \A id \in ReturnedIDs : id \in DOMAIN activeOrders
    /\ \A k \in DOMAIN activeOrders :
         activeOrders[k].Status \notin TerminalStatuses

\* C13 witness: three orders were created and CancelOrder was just called on
\* one of them.
C13_Witness ==
    /\ Len(returned) >= 3
    /\ last.op = "CancelOrder"
    /\ last.id \in ReturnedIDs
    /\ last.id \in DOMAIN activeOrders

\* C20: unsubscribe is idempotent: a second or later call of an unsubscribe
\* function returned by SubscribeOrderUpdate / SubscribeOrderFill ends
\* without error or panic and leaves the manager and every other
\* subscription as they were.
C20_UnsubscribeIdempotent ==
    [][\A h \in 1 .. MaxSubs :
         (Unsubscribe(h) /\ unsubs[h].calls >= 1) =>
            /\ last'.err = "nil"
            /\ UNCHANGED mgrVars
            /\ \A k \in 1 .. Len(unsubs) : k # h => unsubs'[k] = unsubs[k]]_vars

\* C20 witness: with two subscriptions and an order in the map, one
\* unsubscribe function has just been called a second time.
C20_Witness ==
    /\ Len(unsubs) >= 2
    /\ DOMAIN activeOrders # {}
    /\ last.op = "unsubscribe"
    /\ unsubs[last.id].calls >= 2

Holding(w) == wpc[w] \in {"get_time", "acquired", "holding"}

\* C14: the ids of one factory come from an atomic counter starting at 1:
\* under any interleaving of GetEvent and PutEvent, every id assigned is
\* >= 1 and greater than every id assigned before it (so none is assigned
\* twice, and it exceeds the ids of all GetEvent calls that completed
\* earlier), also for a recycled envelope; the envelope carries that id.
C14_EventIDsFresh ==
    /\ \A i \in 1 .. Len(issued) : issued[i] >= 1
    /\ \A i, j \in 1 .. Len(issued) : i < j => issued[i] < issued[j]
    /\ \A w \in Workers :
         Holding(w) => \E i \in 1 .. Len(issued) :
                          events[held[w]].EventID = issued[i]
    /\ \A v, w \in Workers :
         (v # w /\ Holding(v) /\ Holding(w))
         => events[held[v]].EventID # events[held[w]].EventID

\* C14 witness: three ids were assigned, the last to a recycled envelope,
\* while another worker holds an envelope too.
C14_Witness ==
    /\ Len(issued) >= 3
    /\ \E v, w \in Workers :
         /\ v # w
         /\ Holding(v)
         /\ wpc[w] = "acquired"
         /\ recycled[w]
         /\ events[held[w]].EventID = issued[Len(issued)]

\* C15: pool round trip for OrderUpdate: an envelope that went through
\* PutEvent and is returned by a later GetEvent has every payload field at
\* its zero value, whatever the previous holder wrote.
C15_OrderUpdateRoundTrip ==
    \A w \in Workers :
       (payload = "OrderUpdate" /\ wpc[w] = "acquired" /\ recycled[w])
       => events[held[w]].Data = ZeroData("OrderUpdate")

\* C16: pool round trip for OrderFill: an envelope that went through
\* PutEvent and is returned by a later GetEvent has every payload field at
\* its zero value: nothing the previous holder wrote is readable.
C16_OrderFillRoundTrip ==
    \A w \in Workers :
       (payload = "OrderFill" /\ wpc[w] = "acquired" /\ recycled[w])
       => events[held[w]].Data = ZeroData("OrderFill")

\* C16 witness: GetEvent has handed out a recycled OrderFill envelope that
\* an earlier holder had filled in.
C16_Witness ==
    /\ payload = "OrderFill"
    /\ \E w \in Workers :
         /\ wpc[w] = "acquired"
         /\ recycled[w]
         /\ held[w] \in written
         /\ events[held[w]].Data.FeeCcyID = 0

\* C17: every envelope in the pool has EventID 0 and zero CreatedAt and
\* UpdatedAt; every envelope GetEvent hands out has EventID # 0 and
\* CreatedAt = UpdatedAt = the time of the acquisition.
C17_MetadataCleared ==
    /\ \A e \in eventPool :
         /\ events[e].EventID = 0
         /\ events[e].CreatedAt = TimeZero
         /\ events[e].UpdatedAt = TimeZero
    /\ \A w \in Workers :
         wpc[w] = "acquired" =>
            /\ events[held[w]].EventID # 0
            /\ events[held[w]].CreatedAt = events[held[w]].UpdatedAt
            /\ events[held[w]].CreatedAt # TimeZero
            /\ events[held[w]].CreatedAt <= now

\* C17 witness: an envelope is back in the pool while a recycled one has
\* just been handed out.
C17_Witness ==
    /\ eventPool # {}
    /\ \E w \in Workers : wpc[w] = "acquired" /\ recycled[w]

\* C18: GetEvent never blocks and never fails: a worker inside GetEvent
\* holds a non-nil envelope and its next step is enabled whatever the other
\* workers do, with the pool empty or not; no worker ends in a panic.
C18_GetEventNeverBlocks ==
    \A w \in Workers :
       /\ wpc[w] # "panicked"
       /\ wpc[w] \in {"get_id", "get_time", "acquired"} => held[w] \in Envelopes
       /\ wpc[w] = "get_id" => ENABLED GetEventID(w)
       /\ wpc[w] = "get_time" => ENABLED GetEventStamp(w)
       /\ (wpc[w] = "idle" /\ nextEventID + GetsInFlight < MaxEvents)
            => ENABLED GetEventPool(w)

\* C18 witness: with the pool empty, one worker was handed a freshly
\* allocated envelope and another a pooled one.
C18_Witness ==
    /\ eventPool = {}
    /\ \E v, w \in Workers :
         /\ wpc[v] = "acquired" /\ ~recycled[v]
         /\ wpc[w] = "acquired" /\ recycled[w]


\* C29: exclusive envelope ownership: with one PutEvent per GetEvent, no
\* interleaving of GetEvent / PutEvent calls of the workers lets two workers
\* hold the same envelope at once, and an envelope a worker holds is not in
\* the pool (no other GetEvent can return it before its holder's PutEvent).
C29_ExclusiveOwnership ==
    /\ \A v, w \in Workers :
         (v # w /\ held[v] # Nil /\ held[w] # Nil) => held[v] # held[w]
    /\ \A w \in Workers : held[w] # Nil => held[w] \notin eventPool

\* C29 witness: both workers hold an envelope at once, one of them an
\* envelope that an earlier holder wrote and put back.
C29_Witness ==
    /\ \A w \in Workers : wpc[w] \in {"acquired", "holding"}
    /\ \E w \in Workers : recycled[w] /\ held[w] \in written
    /\ \E w \in Workers : ~recycled[w]

C30_KeysInv ==
    /\ clientOrderID = Len(returned)
    /\ DOMAIN activeOrders = 1 .. clientOrderID
    /\ \A k \in DOMAIN activeOrders : activeOrders[k].ClientOrderID = k

\* C30: after any sequence of calls made one after another the key set of
\* the active-order map is exactly 1 .. n, n being the clientOrderID counter
\* (the number of creations), the order under key k has ClientOrderID = k,
\* and a SubmitOrder, CancelOrder or Subscribe* call leaves the counter and
\* the map unchanged.
C30_KeysAreOneToCounter ==
    /\ C30_KeysInv
    /\ [][/\ C30_KeysInv'
          /\ (last'.op \in {"SubmitOrder", "CancelOrder",
                            "SubscribeOrderUpdate", "SubscribeOrderFill"})
                => UNCHANGED <<clientOrderID, activeOrders>>]_vars

\* C30 witness: the counter is at 3 with a limit and a market order in the
\* map, and SubscribeOrderFill was the last call.
C30_Witness ==
    /\ clientOrderID = 3
    /\ \E j, k \in DOMAIN activeOrders :
         activeOrders[j].Type = TypeLimit /\ activeOrders[k].Type = TypeMarket
    /\ last.op = "SubscribeOrderFill"


\* C27: whenever AddSecret returns an error (the acctID is already cached,
\* or the insert fails) the cache is as before the call: GetSecret returns
\* for every acctID what it returned before.
C27_FailedAddLeavesCache ==
    [][\A secret \in Secrets, dbUp \in BOOLEAN :
         (AddSecret(secret, dbUp) /\ smsLast'.err # "nil") =>
            \A a \in SmsAcctIDs :
               GetSecretResult(secrets', a) = GetSecretResult(secrets, a)]_vars


\* C22: the singleton logger: a Get made while no Init has succeeded returns
\* the default console logger, and a Get made after a successful Init returns
\* the logger the most recent successful Init built, under every
\* interleaving of the goroutines' Init and Get calls: never a logger that is
\* half assigned.
C22_GetReturnsLatestInit ==
    [][\A g \in Goroutines :
         ConcGet(g) =>
            logLast'.logger = (IF lastInit = NoLogger THEN ConsoleLogger
                               ELSE lastInit)]_vars

\* C22 witness: a Get returned the file logger of the latest successful
\* Init, and a later Init of another goroutine now has globalLogger half
\* assigned.
C22_Witness ==
    /\ logLast.op = "Get"
    /\ logLast.logger = lastInit
    /\ lastInit.out \notin {"none", "stdout"}
    /\ \E g \in Goroutines : lpc[g] = "init_assigning"
    /\ globalLogger # lastInit
    /\ \A g \in Goroutines : globalLogger # lframe[g].built

\* C23: in every logger state (file logger never used, lazily initialized,
\* initialized by Init, fallen back to console), when SetLogFile(p) returned
\* nil and p is openable, the GetLogger(LoggerTypeFile) call that follows
\* returns a logger that writes to p.
C23_SetLogFileTakesEffect ==
    [][(/\ GetLoggerFile
        /\ logLast.op = "SetLogFile"
        /\ logLast.err = "nil"
        /\ Openable(logLast.path))
       => logLast'.logger.out = logLast.path]_vars

\* C23 witness: a file-output Init initialized the file logger, SetLogFile
\* then moved it to another openable path, and the first
\* GetLogger(LoggerTypeFile) of the process, running the lazy initializer,
\* returned a logger on that path.
C23_Witness ==
    /\ logLast.op = "GetLoggerFile"
    /\ logLast.prevOp = "SetLogFile"
    /\ logLast.ranInit
    /\ lastInit.out \notin {"none", "stdout"}
    /\ setPath.valid
    /\ Openable(setPath.path)
    /\ setPath.path # lastInit.out
    /\ logLast.logger.out = setPath.path

\* C24: after SetLogFile(p) with p non-empty GetLogFile returns p until the
\* next SetLogFile or file-output Init, with the file logger initialized or
\* not and with SetLogFile returning an error or not; GetLogFile never
\* returns the empty string.
C24_SetGetLogFileRoundTrip ==
    /\ GetLogFileResult(logFile) # ""
    /\ (setPath.valid /\ setPath.path # "")
          => GetLogFileResult(logFile) = setPath.path
    /\ logLast.op = "GetLogFile"
          => /\ logLast.file = GetLogFileResult(logFile)
             /\ logLast.file # ""

\* C24 witness: with the file logger initialized, SetLogFile was called with
\* a path whose directory cannot be made (it returned an error) and the
\* GetLogFile after it returned that path.
C24_Witness ==
    /\ logLast.op = "GetLogFile"
    /\ logLast.prevOp = "SetLogFile"
    /\ fileLoggerInitialized
    /\ setPath.valid
    /\ ~MkdirAllOk(setPath.path)
    /\ logLast.file = setPath.path

\* C25: after a successful Init with output "file" (and no SetLogFile
\* since), GetLogger(LoggerTypeFile) returns the file logger that Init
\* built, same writer, rotation and level, on the first
\* GetLogger(LoggerTypeFile) call of the process as on the later ones.
C25_InitFileLoggerKept ==
    [][(GetLoggerFile /\ fileBuiltByInit # NoLogger)
       => logLast'.logger = fileBuiltByInit]_vars

\* C26: under every interleaving of concurrent GetLogger(LoggerTypeFile)
\* calls the body of initFileLogger runs at most once, every call returns a
\* logger assigned by an initialization that has completed, never the zero
\* value, and the logger returned is the console logger when the log
\* directory or file cannot be opened.
C26_FileLoggerInitOnce ==
    [][/\ initRuns' <= 1
       /\ \A g \in Goroutines :
            FileRead(g) =>
               /\ initRuns = 1
               /\ fileLoggerInit = "done"
               /\ logLast'.logger # ZeroLogger
               /\ logLast'.logger = InitFileLoggerResult(logFile)
               /\ ~Openable(logFile) => logLast'.logger = ConsoleLogger]_vars

\* C26 witness: on a path that cannot be opened one goroutine ran the
\* initializer and was returned the console logger while another goroutine,
\* which entered after the run, is about to read the file logger.
C26_Witness ==
    /\ logLast.op = "GetLoggerFile"
    /\ logLast.logger = ConsoleLogger
    /\ ~Openable(logFile)
    /\ initRuns = 1
    /\ \E g \in Goroutines : lpc[g] = "file_read"

\* C28: when Init returns an error all logger state is as before the call:
\* the zerolog global level, the logger Get returns, the recorded log file
\* path, the file logger and the initialized flags.
C28_FailedInitLeavesState ==
    [][\A opts \in Options :
         (LoggerInit(opts) /\ logLast'.err # "nil") =>
            /\ UNCHANGED <<globalLevel, globalLogger, globalLoggerInitialized,
                           logFile, fileLogger, fileLoggerInitialized>>
            /\ GetResult(globalLoggerInitialized', globalLogger')
                  = GetResult(globalLoggerInitialized, globalLogger)]_vars

====
